---- MODULE Spec2Model ----
(***************************************************************************)
(* A model of rclone.js (src/rclone.js): the platform/architecture         *)
(* resolver run at module load, the flag marshaller and process invoker    *)
(* `api`, the command surface built from COMMANDS, and the promise-based   *)
(* result aggregator `api.promises`.                                       *)
(***************************************************************************)
EXTENDS Integers, Sequences, FiniteSets, TLC

VARIABLES
    process,            \* the host's process object: platform, arch, env
    platform,           \* module-level `let platform` (line 6)
    arch,               \* module-level `let arch` (line 6)
    RCLONE_EXECUTABLE,  \* module-level const (lines 40-42)
    pc,                 \* position of the module's top-level code
    input,              \* the caller's pending call: commandName and args
    children,           \* ChildProcess handles returned by spawn
    promise,            \* the Promise created by api.promises, per handle
    stdout,             \* closure array `stdout` of api.promises, per handle
    stderr,             \* closure array `stderr` of api.promises, per handle
    emitted,            \* what each subprocess has emitted so far (history)
    fs,                 \* the filesystem: each path's mode, or Absent
    console,            \* what the current selfupdate call has logged
    requests,           \* the URLs the current selfupdate call has requested
    update              \* the current api.selfupdate call

vars == <<process, platform, arch, RCLONE_EXECUTABLE, pc, input,
          children, promise, stdout, stderr, emitted,
          fs, console, requests, update>>

loadVars == <<process, platform, arch, RCLONE_EXECUTABLE, pc>>
callVars == <<input, children, promise, stdout, stderr, emitted>>
updateVars == <<fs, console, requests, update>>

(***************************************************************************)
(* Bounds of the model.                                                    *)
(***************************************************************************)
MaxPos == 1       \* literal positional arguments before the last argument
MaxFlags == 2     \* entries of a flag object
MaxOut == 2       \* chunks a subprocess writes to standard output
MaxErr == 2       \* chunks a subprocess writes to standard error
MaxBody == 2      \* chunks of an HTTP response body

(***************************************************************************)
(* JavaScript values.                                                      *)
(***************************************************************************)
Str(s) == [t |-> "string", v |-> s]
Num(n) == [t |-> "number", v |-> n]
Bool(b) == [t |-> "boolean", v |-> b]
Null == [t |-> "null", v |-> "null"]
Undefined == [t |-> "undefined", v |-> "undefined"]
\* An array literal; v is the sequence of its elements.
List(elems) == [t |-> "array", v |-> elems]
\* A plain object literal; v is the sequence of its <<key, value>> entries in
\* Object.entries order.
Obj(entries) == [t |-> "object", v |-> entries]

\* All sequences over S of length at most n.
SeqsUpTo(S, n) == UNION {[1..k -> S] : k \in 0..n}

(***************************************************************************)
(* Platform resolver: the two switch statements of lines 8-36.  A switch   *)
(* is a list of clauses; control enters at the first clause with a         *)
(* matching label (or at `default`) and runs on through the following      *)
(* clauses until one ends in `break`.                                      *)
(***************************************************************************)
NoAssign == "<no assignment>"

Clause(labels, assign, brk) ==
    [labels |-> labels, isDefault |-> FALSE, assign |-> assign, brk |-> brk]
DefaultClause(assign, brk) ==
    [labels |-> {}, isDefault |-> TRUE, assign |-> assign, brk |-> brk]

\* switch (platform) { ... } of lines 8-22
PlatformClauses ==
    << Clause({"darwin"}, "osx", TRUE),
       Clause({"freebsd", "linux", "openbsd"}, NoAssign, TRUE),
       Clause({"sunos"}, "solaris", FALSE),
       Clause({"win32"}, "windows", FALSE),
       DefaultClause(NoAssign, TRUE) >>

\* switch (arch) { ... } of lines 24-36
ArchClauses ==
    << Clause({"arm", "arm64", "mips", "mipsel"}, NoAssign, TRUE),
       Clause({"x32"}, "386", FALSE),
       Clause({"x64"}, "amd64", FALSE),
       DefaultClause(NoAssign, TRUE) >>

\* The clause a switch on v enters: the first whose label is v, else the
\* default clause, else past the end.
EntryClause(clauses, v) ==
    LET matching == {i \in 1..Len(clauses) : v \in clauses[i].labels}
        defaults == {i \in 1..Len(clauses) : clauses[i].isDefault}
        Min(S) == CHOOSE i \in S : \A j \in S : i <= j
    IN  IF matching # {} THEN Min(matching)
        ELSE IF defaults # {} THEN Min(defaults)
        ELSE Len(clauses) + 1

\* Runs the clauses from clause i on, falling through until a break; cur is
\* the switched variable's current value.
RECURSIVE RunClauses(_, _, _)
RunClauses(clauses, i, cur) ==
    IF i > Len(clauses) THEN cur
    ELSE LET c == clauses[i]
             new == IF c.assign # NoAssign THEN c.assign ELSE cur
         IN  IF c.brk THEN new ELSE RunClauses(clauses, i + 1, new)

RunSwitch(clauses, v) == RunClauses(clauses, EntryClause(clauses, v), v)

\* const RCLONE_DIR = join(__dirname, "bin")
RCLONE_DIR == "bin"

\* join(RCLONE_DIR, `rclone${ platform === "windows"? ".exe" : "" }`)
DefaultExecutable(os) ==
    RCLONE_DIR \o "/" \o "rclone" \o (IF os = "windows" THEN ".exe" ELSE "")

DEFAULT_RCLONE_EXECUTABLE == DefaultExecutable(platform)

\* const { RCLONE_EXECUTABLE = DEFAULT_RCLONE_EXECUTABLE } = process.env:
\* the default applies when the variable is undefined.
ExecutableFrom(env, os) ==
    IF env.RCLONE_EXECUTABLE = Undefined
    THEN DefaultExecutable(os)
    ELSE env.RCLONE_EXECUTABLE.v

NotYet == "<not yet initialised>"

\* The values of process.platform and process.arch the host may report.
HostPlatforms ==
    {"aix", "android", "darwin", "freebsd", "linux", "openbsd", "sunos", "win32"}
HostArchs ==
    {"arm", "arm64", "ia32", "mips", "mipsel", "ppc64", "x32", "x64"}
HostEnvs ==
    { [RCLONE_EXECUTABLE |-> Undefined],
      [RCLONE_EXECUTABLE |-> Str("/opt/rclone")] }
Hosts == [platform : HostPlatforms, arch : HostArchs, env : HostEnvs]

\* Top-level step: the platform switch (lines 8-22).
PlatformSwitch ==
    /\ pc = "platform"
    /\ platform' = RunSwitch(PlatformClauses, platform)
    /\ pc' = "arch"
    /\ UNCHANGED <<process, arch, RCLONE_EXECUTABLE>>
    /\ UNCHANGED callVars
    /\ UNCHANGED updateVars

\* Top-level step: the architecture switch (lines 24-36).
ArchSwitch ==
    /\ pc = "arch"
    /\ arch' = RunSwitch(ArchClauses, arch)
    /\ pc' = "executable"
    /\ UNCHANGED <<process, platform, RCLONE_EXECUTABLE>>
    /\ UNCHANGED callVars
    /\ UNCHANGED updateVars

\* Top-level step: the executable location (lines 38-42).
ResolveExecutable ==
    /\ pc = "executable"
    /\ RCLONE_EXECUTABLE' = ExecutableFrom(process.env, platform)
    /\ pc' = "loaded"
    /\ UNCHANGED <<process, platform, arch>>
    /\ UNCHANGED callVars
    /\ UNCHANGED updateVars

(***************************************************************************)
(* Flag marshaller and process invoker: `api` (lines 52-70).               *)
(***************************************************************************)
\* !!value
Truthy(value) ==
    CASE value.t = "undefined" -> FALSE
      [] value.t = "null" -> FALSE
      [] value.t = "boolean" -> value.v
      [] value.t = "number" -> value.v # 0
      [] value.t = "string" -> value.v # ""
      [] OTHER -> TRUE

\* value.constructor, for a value that has one: the name of the built-in
\* constructor of the value's prototype.
Constructor(value) ==
    CASE value.t = "object" -> "Object"
      [] value.t = "array" -> "Array"
      [] value.t = "string" -> "String"
      [] value.t = "number" -> "Number"
      [] value.t = "boolean" -> "Boolean"
      [] OTHER -> "<none>"

\* `${ value }`: the template literal's string conversion.
RECURSIVE TemplateString(_)
JoinComma(elems) ==
    IF elems = <<>> THEN ""
    ELSE LET ElemString(e) ==
                 IF e.t \in {"null", "undefined"} THEN "" ELSE TemplateString(e)
             F[i \in 1..Len(elems)] ==
                 IF i = 1 THEN ElemString(elems[1])
                 ELSE F[i - 1] \o "," \o ElemString(elems[i])
         IN  F[Len(elems)]
TemplateString(value) ==
    CASE value.t = "string" -> value.v
      [] value.t = "number" -> ToString(value.v)
      [] value.t = "boolean" -> (IF value.v THEN "true" ELSE "false")
      [] value.t = "null" -> "null"
      [] value.t = "undefined" -> "undefined"
      [] value.t = "array" -> JoinComma(value.v)
      [] OTHER -> "[object Object]"

\* args.pop(): the removed last element (undefined for an empty array) and
\* the array that remains.
Pop(args) ==
    IF args = <<>> THEN [value |-> Undefined, rest |-> <<>>]
    ELSE [value |-> args[Len(args)], rest |-> SubSeq(args, 1, Len(args) - 1)]

\* Mutant of FlagCallback: the value token is withheld for `true` only, so
\* `false` is followed by the token "false".
FlagCallbackValueAfterFalse(args, entry) ==
    LET value == entry[2]
        key == IF value = Bool(FALSE) THEN "no-" \o entry[1] ELSE entry[1]
        pushed == Append(args, Str("--" \o key))
    IN  IF value # Bool(TRUE)
        THEN Append(pushed, Str(TemplateString(value)))
        ELSE pushed

\* The callback of Object.entries(flags).forEach (lines 55-63), applied to
\* one entry; returns args as the callback leaves it.
FlagCallback(args, entry) ==
    LET value == entry[2]
        key == IF value = Bool(FALSE) THEN "no-" \o entry[1] ELSE entry[1]
        pushed == Append(args, Str("--" \o key))
    IN  IF value.t # "boolean"
        THEN Append(pushed, Str(TemplateString(value)))
        ELSE pushed

\* Object.entries(flags).forEach(callback), from entry i on.
RECURSIVE ForEachFlag(_, _, _)
ForEachFlag(args, entries, i) ==
    IF i > Len(entries) THEN args
    ELSE ForEachFlag(FlagCallback(args, entries[i]), entries, i + 1)

\* Mutant of SpawnArgs: a last argument that is no flag object is not pushed
\* back.
SpawnArgsNoPushBack(args) ==
    LET flags == Pop(args).value
        rest == Pop(args).rest
    IN  IF Truthy(flags) /\ Constructor(flags) = "Object"
        THEN ForEachFlag(rest, flags.v, 1)
        ELSE rest

\* The argument vector api(...args) hands to spawn (lines 53-69).
SpawnArgs(args) ==
    LET flags == Pop(args).value
        rest == Pop(args).rest
    IN  IF Truthy(flags) /\ Constructor(flags) = "Object"
        THEN ForEachFlag(rest, flags.v, 1)
        ELSE Append(rest, flags)

(***************************************************************************)
(* Child processes and promises.                                           *)
(***************************************************************************)
Handles == {"h1", "h2"}

NoChild == [file |-> "<none>", args |-> <<>>, via |-> "<none>"]
NoPromise == [state |-> "<none>", value |-> Undefined]
NoInput == [commandName |-> "<none>", args |-> <<>>]
NoError == "<no error>"
NoExit == <<>>

Quiet ==
    [out |-> <<>>, err |-> <<>>, outEnd |-> FALSE, errEnd |-> FALSE,
     error |-> NoError, exit |-> NoExit]

\* spawn(RCLONE_EXECUTABLE, args): a new ChildProcess; `via` records the
\* entry point that spawned it.
Spawn(file, args, via) == [file |-> file, args |-> args, via |-> via]

\* api(...args), line 69.
api(args, via) == Spawn(RCLONE_EXECUTABLE, SpawnArgs(args), via)

Buffer(s) == [t |-> "Buffer", v |-> s]
ErrorObject(code) == [t |-> "Error", v |-> code]

\* Buffer.concat(list): the chunks' bytes joined in list order.
RECURSIVE BufferConcat(_)
BufferConcat(list) ==
    IF list = <<>> THEN "" ELSE Head(list) \o BufferConcat(Tail(list))

\* new Promise(...) (line 74): pending until its resolve or reject function
\* is first called; later calls of either have no effect.
PendingPromise == [state |-> "pending", value |-> Undefined]

\* Mutant of reject: the last call wins.
rejectOverwrites(p, reason) == [state |-> "rejected", value |-> reason]

resolve(p, value) ==
    IF p.state = "pending" THEN [state |-> "fulfilled", value |-> value] ELSE p

reject(p, reason) ==
    IF p.state = "pending" THEN [state |-> "rejected", value |-> reason] ELSE p

\* The catalog of subcommand names (lines 146-214).
COMMANDS ==
    << "about", "authorize", "backend", "cat", "check", "cleanup", "config",
       "config create", "config delete", "config disconnect", "config dump",
       "config edit", "config file", "config password", "config providers",
       "config reconnect", "config show", "config update", "config userinfo",
       "copy", "copyto", "copyurl", "cryptcheck", "cryptdecode", "dedupe",
       "delete", "deletefile", "genautocomplete", "genautocomplete bash",
       "genautocomplete fish", "genautocomplete zsh", "gendocs", "hashsum",
       "link", "listremotes", "ls", "lsd", "lsf", "lsjson", "lsl", "md5sum",
       "mkdir", "mount", "move", "moveto", "ncdu", "obscure", "purge", "rc",
       "rcat", "rcd", "rmdir", "rmdirs", "serve", "serve dlna", "serve ftp",
       "serve http", "serve restic", "serve sftp", "serve webdav", "settier",
       "sha1sum", "size", "sync", "touch", "tree", "version" >>

IsCommand(name) == \E i \in 1..Len(COMMANDS) : COMMANDS[i] = name

\* A direct call api(...args) (lines 52-70); the caller keeps the handle.
ApiCall(h, args) ==
    /\ pc = "loaded"
    /\ children[h] = NoChild
    /\ children' = [children EXCEPT ![h] = api(args, "api")]
    /\ UNCHANGED <<input, promise, stdout, stderr, emitted>>
    /\ UNCHANGED loadVars
    /\ UNCHANGED updateVars

\* A direct call api.promises(...args) (lines 73-97): spawns through api and
\* subscribes to the handle's events.
PromisesCall(h, args) ==
    /\ pc = "loaded"
    /\ children[h] = NoChild
    /\ children' = [children EXCEPT ![h] = api(args, "promises")]
    /\ promise' = [promise EXCEPT ![h] = PendingPromise]
    /\ stdout' = [stdout EXCEPT ![h] = <<>>]
    /\ stderr' = [stderr EXCEPT ![h] = <<>>]
    /\ UNCHANGED <<input, emitted>>
    /\ UNCHANGED loadVars
    /\ UNCHANGED updateVars

\* api[commandName](...args) (lines 218-227): api(commandName, ...args).
ApiCommand(h, commandName, args) ==
    /\ pc = "loaded"
    /\ IsCommand(commandName)
    /\ children[h] = NoChild
    /\ children' = [children EXCEPT ![h] = api(<<Str(commandName)>> \o args, "api")]
    /\ UNCHANGED <<input, promise, stdout, stderr, emitted>>
    /\ UNCHANGED loadVars
    /\ UNCHANGED updateVars

\* Mutant of PromisesCommand: the subcommand name is not prepended.
PromisesCommandWithoutName(h, commandName, args) ==
    /\ pc = "loaded"
    /\ IsCommand(commandName)
    /\ children[h] = NoChild
    /\ children' = [children EXCEPT ![h] = api(args, "promises")]
    /\ promise' = [promise EXCEPT ![h] = PendingPromise]
    /\ stdout' = [stdout EXCEPT ![h] = <<>>]
    /\ stderr' = [stderr EXCEPT ![h] = <<>>]
    /\ UNCHANGED <<input, emitted>>
    /\ UNCHANGED loadVars
    /\ UNCHANGED updateVars

\* api.promises[commandName](...args) (lines 230-239 and 73-97):
\* promises(commandName, ...args) spawns through api and subscribes.
PromisesCommand(h, commandName, args) ==
    /\ pc = "loaded"
    /\ IsCommand(commandName)
    /\ children[h] = NoChild
    /\ children' =
           [children EXCEPT ![h] = api(<<Str(commandName)>> \o args, "promises")]
    /\ promise' = [promise EXCEPT ![h] = PendingPromise]
    /\ stdout' = [stdout EXCEPT ![h] = <<>>]
    /\ stderr' = [stderr EXCEPT ![h] = <<>>]
    /\ UNCHANGED <<input, emitted>>
    /\ UNCHANGED loadVars
    /\ UNCHANGED updateVars

(***************************************************************************)
(* The listeners api.promises registers (lines 77-95).                     *)
(***************************************************************************)
\* Mutant of OnError: the error listener does not settle the promise.
OnErrorIgnored(p, error) == p

\* Mutant of OnStdoutData: the chunk is put in front of the list.
OnStdoutDataUnshift(list, chunk) == <<chunk>> \o list

\* Mutant of OnStdoutEnd: the end of standard output does not settle the
\* promise.
OnStdoutEndIgnored(p, list) == p

\* subprocess.on("error", ...), lines 77-79
OnError(p, error) == reject(p, error)

\* subprocess.stdout.on("data", ...), lines 82-84
OnStdoutData(list, chunk) == Append(list, chunk)

\* subprocess.stdout.on("end", ...), lines 85-87
OnStdoutEnd(p, list) == resolve(p, Buffer(BufferConcat(list)))

\* subprocess.stderr.on("data", ...), lines 88-90
OnStderrData(list, chunk) == Append(list, chunk)

\* subprocess.stderr.on("end", ...), lines 91-95
OnStderrEnd(p, list) ==
    IF Len(list) # 0 THEN reject(p, Buffer(BufferConcat(list))) ELSE p

(***************************************************************************)
(* The subprocess: it emits events in any order, except that a stream      *)
(* emits no data after its end and ends once, and the handle reports at    *)
(* most one exit and at most one error.  api.promises keeps the handle to  *)
(* itself and passes spawn no options, so the only error the handle can    *)
(* report is a failed spawn, which the runtime emits before either stream  *)
(* ends.  A listener runs when its event is emitted.                       *)
(***************************************************************************)
OutChunks == {"a", "bc"}
ErrChunks == {"e", "rr"}
Errors == {ErrorObject("ENOENT"), ErrorObject("EACCES")}
ExitCodes == {0, 1}

Listening(h) == promise[h] # NoPromise

EmitError(h, error) ==
    /\ children[h] # NoChild
    /\ emitted[h].error = NoError
    /\ ~emitted[h].outEnd
    /\ ~emitted[h].errEnd
    /\ emitted' = [emitted EXCEPT ![h].error = error.v]
    /\ promise' = IF Listening(h)
                  THEN [promise EXCEPT ![h] = OnError(promise[h], error)]
                  ELSE promise
    /\ UNCHANGED <<input, children, stdout, stderr>>
    /\ UNCHANGED loadVars
    /\ UNCHANGED updateVars

\* Mutant of EmitStdoutData: one `stdout` array is shared by all invocations.
EmitStdoutDataShared(h, chunk) ==
    /\ children[h] # NoChild
    /\ ~emitted[h].outEnd
    /\ Len(emitted[h].out) < MaxOut
    /\ emitted' = [emitted EXCEPT ![h].out = Append(@, chunk)]
    /\ stdout' = [k \in Handles |->
                     IF Listening(k) THEN OnStdoutData(stdout[k], chunk)
                     ELSE stdout[k]]
    /\ UNCHANGED <<input, children, promise, stderr>>
    /\ UNCHANGED loadVars
    /\ UNCHANGED updateVars

EmitStdoutData(h, chunk) ==
    /\ children[h] # NoChild
    /\ ~emitted[h].outEnd
    /\ Len(emitted[h].out) < MaxOut
    /\ emitted' = [emitted EXCEPT ![h].out = Append(@, chunk)]
    /\ stdout' = IF Listening(h)
                 THEN [stdout EXCEPT ![h] = OnStdoutData(stdout[h], chunk)]
                 ELSE stdout
    /\ UNCHANGED <<input, children, promise, stderr>>
    /\ UNCHANGED loadVars
    /\ UNCHANGED updateVars

EmitStdoutEnd(h) ==
    /\ children[h] # NoChild
    /\ ~emitted[h].outEnd
    /\ emitted' = [emitted EXCEPT ![h].outEnd = TRUE]
    /\ promise' = IF Listening(h)
                  THEN [promise EXCEPT ![h] = OnStdoutEnd(promise[h], stdout[h])]
                  ELSE promise
    /\ UNCHANGED <<input, children, stdout, stderr>>
    /\ UNCHANGED loadVars
    /\ UNCHANGED updateVars

EmitStderrData(h, chunk) ==
    /\ children[h] # NoChild
    /\ ~emitted[h].errEnd
    /\ Len(emitted[h].err) < MaxErr
    /\ emitted' = [emitted EXCEPT ![h].err = Append(@, chunk)]
    /\ stderr' = IF Listening(h)
                 THEN [stderr EXCEPT ![h] = OnStderrData(stderr[h], chunk)]
                 ELSE stderr
    /\ UNCHANGED <<input, children, promise, stdout>>
    /\ UNCHANGED loadVars
    /\ UNCHANGED updateVars

EmitStderrEnd(h) ==
    /\ children[h] # NoChild
    /\ ~emitted[h].errEnd
    /\ emitted' = [emitted EXCEPT ![h].errEnd = TRUE]
    /\ promise' = IF Listening(h)
                  THEN [promise EXCEPT ![h] = OnStderrEnd(promise[h], stderr[h])]
                  ELSE promise
    /\ UNCHANGED <<input, children, stdout, stderr>>
    /\ UNCHANGED loadVars
    /\ UNCHANGED updateVars

\* The process exits with a code; api.promises registers no listener for it.
EmitExit(h, code) ==
    /\ children[h] # NoChild
    /\ emitted[h].exit = NoExit
    /\ emitted' = [emitted EXCEPT ![h].exit = <<code>>]
    /\ UNCHANGED <<input, children, promise, stdout, stderr>>
    /\ UNCHANGED loadVars
    /\ UNCHANGED updateVars

(***************************************************************************)
(* Installer / self-updater: api.selfupdate (lines 103-144) and get        *)
(* (lines 244-254).  File names are sequences of characters, so that the   *)
(* regular expression of line 135 is computed on them.                     *)
(***************************************************************************)
\* The string of a sequence of characters.
RECURSIVE Text(_)
Text(chars) == IF chars = <<>> THEN "" ELSE Head(chars) \o Text(Tail(chars))

EndsWith(chars, suffix) ==
    /\ Len(chars) >= Len(suffix)
    /\ SubSeq(chars, Len(chars) - Len(suffix) + 1, Len(chars)) = suffix

\* chars.replace(pattern, ""): the first occurrence of pattern is removed.
ReplaceFirst(chars, pattern) ==
    LET at == {i \in 1..(Len(chars) - Len(pattern) + 1) :
                  SubSeq(chars, i, i + Len(pattern) - 1) = pattern}
        first == CHOOSE i \in at : \A j \in at : i <= j
    IN  IF at = {} THEN chars
        ELSE SubSeq(chars, 1, first - 1)
                 \o SubSeq(chars, first + Len(pattern), Len(chars))

RcloneChars == <<"r", "c", "l", "o", "n", "e">>
ExeChars == <<".", "e", "x", "e">>

\* /rclone(\.exe)?$/.test(name), line 135: the pattern is anchored at the
\* end of the name only.
MatchesExecutable(name) ==
    EndsWith(name, RcloneChars) \/ EndsWith(name, RcloneChars \o ExeChars)

\* An archive entry: entry.name is the base name, entry.entryName the path
\* inside the archive.
Entry(dir, name) == [dir |-> dir, name |-> name]
EntryName(entry) ==
    IF entry.dir = <<>> THEN entry.name ELSE entry.dir \o <<"/">> \o entry.name

\* join(dir, name)
Join(dir, name) == dir \o "/" \o name

Absent == "<absent>"
\* The mode of a file as extractEntryTo writes it, and 0o755.
ModeExtracted == "rw-r--r--"
ModeExecutable == "rwxr-xr-x"

\* Mutant of existsSync: the default location is tested, whatever the path.
existsSyncDefault(path) == fs[DEFAULT_RCLONE_EXECUTABLE] # Absent

\* existsSync(path)
existsSync(path) == fs[path] # Absent

\* A property of the options object, or the destructuring default when the
\* property is undefined (lines 104-109).
HasKey(options, key) == \E i \in 1..Len(options.v) : options.v[i][1] = key
PropertyOr(options, key, default) ==
    IF HasKey(options, key)
    THEN LET i == CHOOSE j \in 1..Len(options.v) : options.v[j][1] = key
         IN  options.v[i][2]
    ELSE default

OptBeta(options) == PropertyOr(options, "beta", Bool(FALSE))
OptStable(options) ==
    PropertyOr(options, "stable", Bool(~Truthy(OptBeta(options))))
OptVersion(options) == PropertyOr(options, "version", Undefined)
OptCheck(options) == PropertyOr(options, "check", Bool(FALSE))

\* Lines 116-117.
BaseUrl(options) ==
    IF Truthy(OptStable(options)) THEN "https://downloads.rclone.org"
    ELSE "https://beta.rclone.org"
Channel(options) ==
    IF Truthy(OptStable(options)) THEN "current" ELSE "beta-latest"

\* Mutant of VersionUrl: the stable host, whatever the channel.
VersionUrlStableOnly(options) == "https://downloads.rclone.org" \o "/version.txt"

\* Line 120.
VersionUrl(options) == BaseUrl(options) \o "/version.txt"

\* Line 126.
ArchiveName(options) ==
    IF Truthy(OptVersion(options))
    THEN TemplateString(OptVersion(options)) \o "/rclone-"
             \o TemplateString(OptVersion(options))
    ELSE "rclone-" \o Channel(options)

\* Line 127.
ArchiveUrl(options) ==
    BaseUrl(options) \o "/" \o ArchiveName(options) \o "-" \o platform
        \o "-" \o arch \o ".zip"

\* Buffer.concat(chunks) of get (line 250): a chunk is a sequence of items,
\* pieces of text or archive entries.
RECURSIVE BodyConcat(_)
BodyConcat(chunks) ==
    IF chunks = <<>> THEN <<>> ELSE Head(chunks) \o BodyConcat(Tail(chunks))

\* The callback of the version check (lines 120-122): what it logs.
CheckLog(body) == "The latest version is " \o Text(body)

\* The callback of zip.getEntries().forEach (lines 133-142), applied to one
\* entry: st holds the filesystem, the log, and the error thrown, if any.
NotThrown == "<nothing thrown>"
ExtractEntry(st, entry) ==
    IF ~MatchesExecutable(entry.name) THEN st
    ELSE LET extracted == Join(RCLONE_DIR, Text(entry.name))
             written == [st.fs EXCEPT ![extracted] = ModeExtracted]
         IN  IF written[DEFAULT_RCLONE_EXECUTABLE] = Absent
             THEN \* chmodSync throws for a missing path.
                  [st EXCEPT !.fs = written, !.thrown = "ENOENT"]
             ELSE [st EXCEPT
                      !.fs = [written EXCEPT
                                 ![DEFAULT_RCLONE_EXECUTABLE] = ModeExecutable],
                      !.console =
                          Append(@, Text(ReplaceFirst(EntryName(entry),
                                                     <<"/">> \o entry.name))
                                        \o " is installed.")]

\* zip.getEntries().forEach(callback) from entry i on; a throw ends it.
RECURSIVE ExtractAll(_, _, _)
ExtractAll(st, entries, i) ==
    IF i > Len(entries) \/ st.thrown # NotThrown THEN st
    ELSE ExtractAll(ExtractEntry(st, entries[i]), entries, i + 1)

IdleUpdate ==
    [pc |-> "idle", kind |-> "none", returned |-> "none",
     promise |-> NoPromise, chunks |-> <<>>, uncaught |-> NoError]

\* The options of the pending call: the argument, or {} by default.
Options == IF input.args = <<>> THEN Obj(<<>>) ELSE input.args[1]

\* The handle the next spawn gets.
FreeHandle == IF children["h1"] = NoChild THEN "h1" ELSE "h2"

\* api.selfupdate(options), lines 103-127: the synchronous part.
Selfupdate ==
    /\ pc = "loaded"
    /\ update.pc \in {"idle", "delegated", "settled"}
    /\ IF existsSync(RCLONE_EXECUTABLE)
       THEN /\ children[FreeHandle] = NoChild
            /\ children' =
                   [children EXCEPT
                       ![FreeHandle] =
                           api(<<Str("selfupdate"), Options>>, "selfupdate")]
            /\ update' = [IdleUpdate EXCEPT !.pc = "delegated",
                                            !.returned = "ChildProcess"]
            /\ requests' = <<>>
            /\ console' = <<>>
       ELSE IF Truthy(OptCheck(Options))
       THEN /\ requests' = <<VersionUrl(Options)>>
            /\ console' = <<>>
            /\ update' = [IdleUpdate EXCEPT !.pc = "fetching",
                                            !.kind = "check",
                                            !.returned = "Promise",
                                            !.promise = PendingPromise]
            /\ UNCHANGED children
       ELSE /\ console' = <<"Downloading rclone...">>
            /\ requests' = <<ArchiveUrl(Options)>>
            /\ update' = [IdleUpdate EXCEPT !.pc = "fetching",
                                            !.kind = "download",
                                            !.returned = "Promise",
                                            !.promise = PendingPromise]
            /\ UNCHANGED children
    /\ UNCHANGED <<input, promise, stdout, stderr, emitted, fs>>
    /\ UNCHANGED loadVars

\* response.on("data", ...), line 248.
ResponseData(item) ==
    /\ update.pc = "fetching"
    /\ Len(update.chunks) < MaxBody
    /\ update' = [update EXCEPT !.chunks = Append(@, <<item>>)]
    /\ UNCHANGED <<fs, console, requests>>
    /\ UNCHANGED callVars
    /\ UNCHANGED loadVars

\* response.on("end", ...), lines 249-251, and the callback the promise of
\* get then runs: lines 120-122 for a check, lines 127-143 for a download.
ResponseEnd ==
    /\ update.pc = "fetching"
    /\ LET body == BodyConcat(update.chunks)
       IN  IF update.kind = "check"
           THEN /\ console' = Append(console, CheckLog(body))
                /\ update' = [update EXCEPT
                                 !.pc = "settled",
                                 !.promise = resolve(@, Undefined)]
                /\ UNCHANGED fs
           ELSE LET start == [fs |-> fs,
                              console |-> Append(console, "Extracting rclone..."),
                              thrown |-> NotThrown]
                    end == ExtractAll(start, body, 1)
                IN  /\ fs' = end.fs
                    /\ console' = end.console
                    /\ update' = [update EXCEPT
                                     !.pc = "settled",
                                     !.promise =
                                         IF end.thrown = NotThrown
                                         THEN resolve(@, Undefined)
                                         ELSE reject(@, ErrorObject(end.thrown))]
    /\ UNCHANGED requests
    /\ UNCHANGED callVars
    /\ UNCHANGED loadVars

\* The request fails: the ClientRequest of https.get (line 246) emits
\* "error".  get registers no listener for it, so no code of the module
\* runs: the error is uncaught and the promise of get is left as it is.
RequestError(error) ==
    /\ update.pc = "fetching"
    /\ update' = [update EXCEPT !.pc = "failed", !.uncaught = error.v]
    /\ UNCHANGED <<fs, console, requests>>
    /\ UNCHANGED callVars
    /\ UNCHANGED loadVars

(***************************************************************************)
(* Inputs.                                                                 *)
(***************************************************************************)
PosValues == {Str("source:"), Num(7)}
FlagKeys == {"max-depth", "dry-run", "v"}
FlagValues == {Bool(TRUE), Bool(FALSE), Str("1h"), Num(1)}

\* Flag objects: entries with distinct keys, in iteration order.
FlagObjects ==
    { Obj(e) : e \in { s \in SeqsUpTo(FlagKeys \X FlagValues, MaxFlags) :
                         \A i, j \in 1..Len(s) : i # j => s[i][1] # s[j][1] } }

\* Last arguments that are not plain objects.
NonMappings ==
    { Str("dest:"), Str(""), Num(0), Num(3), Null,
      List(<<Str("a"), Num(2)>>), List(<<>>) }

ArgLists ==
    { pos \o last : pos \in SeqsUpTo(PosValues, MaxPos),
                    last \in {<<>>} \cup {<<x>> : x \in FlagObjects \cup NonMappings} }

CommandNames == {"ls", "config create"}

Inputs == [commandName : CommandNames, args : ArgLists]

\* The call of the README's example.
ExampleInput ==
    [commandName |-> "ls",
     args |-> <<Str("source:"), Obj(<< <<"max-depth", Num(1)>> >>)>>]

LinuxHost ==
    [platform |-> "linux", arch |-> "x64", env |-> [RCLONE_EXECUTABLE |-> Undefined]]
WindowsHost ==
    [platform |-> "win32", arch |-> "x64",
     env |-> [RCLONE_EXECUTABLE |-> Str("/opt/rclone")]]

SunosHost ==
    [platform |-> "sunos", arch |-> "x32", env |-> [RCLONE_EXECUTABLE |-> Undefined]]

\* Base names of archive entries: the executable with and without .exe, the
\* manual page rclone.1, and a name that only ends in rclone.
EntryNames ==
    { RcloneChars, RcloneChars \o ExeChars, RcloneChars \o <<".", "1">>,
      <<"x">> \o RcloneChars }
ArchiveDir == RcloneChars \o <<"-", "v", "1">>
Entries == {Entry(ArchiveDir, name) : name \in EntryNames}
TextPieces == {"v1.2", ".3\n"}
TransportErrors == {ErrorObject("ECONNRESET")}

\* What a response body is made of, by the kind of request.
BodyItems(kind) == IF kind = "check" THEN TextPieces ELSE Entries

Paths == {Join(RCLONE_DIR, Text(name)) : name \in EntryNames} \cup {"/opt/rclone"}
EmptyFs == [path \in Paths |-> Absent]

\* Options objects: each of beta, stable, version and check given or not.
Given(key, value) == IF value = Undefined THEN <<>> ELSE << <<key, value>> >>
OptionObjects ==
    { Obj(Given("beta", b) \o Given("stable", st) \o Given("version", ver)
              \o Given("check", chk)) :
          b \in {Undefined, Bool(TRUE), Bool(FALSE)},
          st \in {Undefined, Bool(TRUE), Bool(FALSE)},
          ver \in {Undefined, Str("v1.2.3")},
          chk \in {Undefined, Bool(TRUE), Bool(FALSE)} }
UpdateInputs ==
    [commandName : {"selfupdate"},
     args : {<<>>} \cup {<<options>> : options \in OptionObjects}]

(***************************************************************************)
(* Specifications.                                                         *)
(***************************************************************************)
NoUpdate ==
    /\ fs = EmptyFs
    /\ console = <<>>
    /\ requests = <<>>
    /\ update = IdleUpdate

NoCalls ==
    /\ children = [h \in Handles |-> NoChild]
    /\ promise = [h \in Handles |-> NoPromise]
    /\ stdout = [h \in Handles |-> <<>>]
    /\ stderr = [h \in Handles |-> <<>>]
    /\ emitted = [h \in Handles |-> Quiet]

\* The module after its top-level code has run on host.
Loaded(host) ==
    /\ process = host
    /\ platform = RunSwitch(PlatformClauses, host.platform)
    /\ arch = RunSwitch(ArchClauses, host.arch)
    /\ RCLONE_EXECUTABLE =
           ExecutableFrom(host.env, RunSwitch(PlatformClauses, host.platform))
    /\ pc = "loaded"

\* Module load: line 6 has run, on any host.
InitLoad ==
    /\ process \in Hosts
    /\ platform = process.platform
    /\ arch = process.arch
    /\ RCLONE_EXECUTABLE = NotYet
    /\ pc = "platform"
    /\ input = NoInput
    /\ NoCalls
    /\ NoUpdate

NextLoad == PlatformSwitch \/ ArchSwitch \/ ResolveExecutable

SpecLoad == InitLoad /\ [][NextLoad]_vars

\* The command surface: one call, made through the direct entry point (handle
\* h1) and through the promise-based entry point (handle h2).
InitApi ==
    /\ \E host \in {LinuxHost, WindowsHost} : Loaded(host)
    /\ input \in Inputs
    /\ NoCalls
    /\ NoUpdate

CallDirect == ApiCommand("h1", input.commandName, input.args)
CallPromises == PromisesCommand("h2", input.commandName, input.args)

NextApi == CallDirect \/ CallPromises

SpecApi == InitApi /\ [][NextApi]_vars

\* The result aggregator: one promise-based call and its subprocess's events.
InitPromises ==
    /\ Loaded(LinuxHost)
    /\ input = ExampleInput
    /\ NoCalls
    /\ NoUpdate

Invoke == PromisesCommand("h1", input.commandName, input.args)
ErrorEvent == \E h \in Handles, error \in Errors : EmitError(h, error)
StdoutData == \E h \in Handles, chunk \in OutChunks : EmitStdoutData(h, chunk)
StdoutEnd == \E h \in Handles : EmitStdoutEnd(h)
StderrData == \E h \in Handles, chunk \in ErrChunks : EmitStderrData(h, chunk)
StderrEnd == \E h \in Handles : EmitStderrEnd(h)
Exit == \E h \in Handles, code \in ExitCodes : EmitExit(h, code)

NextPromises ==
    \/ Invoke
    \/ ErrorEvent
    \/ StdoutData
    \/ StdoutEnd
    \/ StderrData
    \/ StderrEnd
    \/ Exit

SpecPromises == InitPromises /\ [][NextPromises]_vars

\* The result aggregator with the streams' ends delivered: a subprocess's
\* standard output ends when the process closes it or exits, and the runtime
\* delivers that event.
SpecPromisesFair == SpecPromises /\ WF_vars(StdoutEnd)

\* The invoker called directly, with any argument list, the empty one
\* included: api(...args) on handle h1 and api.promises(...args) on h2.
InitInvoke ==
    /\ \E host \in {LinuxHost, WindowsHost} : Loaded(host)
    /\ input \in [commandName : {NoInput.commandName}, args : ArgLists]
    /\ NoCalls
    /\ NoUpdate

InvokeDirect == ApiCall("h1", input.args)
InvokePromises == PromisesCall("h2", input.args)

NextInvoke == InvokeDirect \/ InvokePromises

SpecInvoke == InitInvoke /\ [][NextInvoke]_vars

\* Two promise-based invocations in flight at once.  The subprocess of h1
\* writes the chunks "a" and "e", that of h2 the chunks "bc" and "rr", so a
\* chunk's origin shows in every buffer.
OutChunkOf(h) == IF h = "h1" THEN "a" ELSE "bc"
ErrChunkOf(h) == IF h = "h1" THEN "e" ELSE "rr"

InvokeFirst == PromisesCommand("h1", input.commandName, input.args)
InvokeSecond == PromisesCommand("h2", "lsd", <<Str("dest:")>>)
ErrorOf == \E h \in Handles : EmitError(h, ErrorObject("ENOENT"))
StdoutDataOf == \E h \in Handles : EmitStdoutData(h, OutChunkOf(h))
StdoutEndOf == \E h \in Handles : EmitStdoutEnd(h)
StderrDataOf == \E h \in Handles : EmitStderrData(h, ErrChunkOf(h))
StderrEndOf == \E h \in Handles : EmitStderrEnd(h)

NextConcurrent ==
    \/ InvokeFirst
    \/ InvokeSecond
    \/ ErrorOf
    \/ StdoutDataOf
    \/ StdoutEndOf
    \/ StderrDataOf
    \/ StderrEndOf

SpecConcurrent == InitPromises /\ [][NextConcurrent]_vars

\* The self-updater: api.selfupdate called, any number of times, with one
\* options value, on a host where the executable exists or does not.
InitUpdate ==
    /\ \E host \in {LinuxHost, WindowsHost, SunosHost} : Loaded(host)
    /\ input \in UpdateInputs
    /\ NoCalls
    /\ fs \in {EmptyFs, [EmptyFs EXCEPT ![RCLONE_EXECUTABLE] = ModeExecutable]}
    /\ console = <<>>
    /\ requests = <<>>
    /\ update = IdleUpdate

Data == \E item \in BodyItems(update.kind) : ResponseData(item)
Failure == \E error \in TransportErrors : RequestError(error)

NextUpdate == Selfupdate \/ Data \/ ResponseEnd \/ Failure

SpecUpdate == InitUpdate /\ [][NextUpdate]_vars

(***************************************************************************)
(* Properties.                                                             *)
(***************************************************************************)
Rejected(reason) == [state |-> "rejected", value |-> reason]
Fulfilled(value) == [state |-> "fulfilled", value |-> value]

\* The streams of h have both ended.
StreamsEnded(h) == emitted[h].outEnd /\ emitted[h].errEnd

\* C1: whenever the subprocess of a promise-based invocation wrote at least
\* one chunk to standard error, the promise ends up rejected with the
\* concatenation of the standard-error chunks, whichever of stdout 'end' and
\* stderr 'end' came first.  Stated for the invocations whose handle emitted
\* no error event, where only the two stream ends can settle the promise.
C1_StderrAlwaysRejects ==
    \A h \in Handles :
        (Listening(h) /\ StreamsEnded(h) /\ emitted[h].err # <<>>
                      /\ emitted[h].error = NoError)
            => promise[h] = Rejected(Buffer(BufferConcat(emitted[h].err)))

C3_NonzeroExitRejects ==
    \A h \in Handles :
        (Listening(h) /\ StreamsEnded(h) /\ emitted[h].exit # NoExit
                      /\ emitted[h].exit[1] # 0)
            => promise[h].state = "rejected"

\* C4: once the handle has emitted an error event the promise is rejected
\* with that error object, whatever stream events were delivered before it
\* or are delivered after it.
C4_ErrorRejects ==
    \A h \in Handles :
        (Listening(h) /\ emitted[h].error # NoError)
            => promise[h] = Rejected(ErrorObject(emitted[h].error))

C4_Witness ==
    /\ emitted["h1"].error = "ENOENT"
    /\ promise["h1"] = Rejected(ErrorObject("ENOENT"))
    /\ StreamsEnded("h1")
    /\ emitted["h1"].out # <<>>
    /\ emitted["h1"].err # <<>>

\* C5: a promise that has settled keeps its state and value under every
\* later event of the same handle.
C5_SettledOnce ==
    [][\A h \in Handles :
          promise[h].state \in {"fulfilled", "rejected"}
              => promise'[h] = promise[h]]_vars

C5_Witness ==
    /\ promise["h1"] = Fulfilled(Buffer("a"))
    /\ emitted["h1"].errEnd
    /\ emitted["h1"].err = <<"e", "rr">>

\* The release name of an operating system, as the mapping table gives it.
ReleaseOsName(os) ==
    CASE os = "darwin" -> "osx"
      [] os = "sunos" -> "solaris"
      [] os = "win32" -> "windows"
      [] OTHER -> os

\* The release name of an architecture, as the mapping table gives it.
ReleaseArchName(cpu) ==
    CASE cpu = "x32" -> "386"
      [] cpu = "x64" -> "amd64"
      [] OTHER -> cpu

\* C6: after the platform switch, the operating-system name (which the
\* executable suffix and the archive name use) is osx for darwin, solaris
\* for sunos, windows for win32 and the host's name otherwise.
C6_OsNameTable ==
    pc # "platform" => platform = ReleaseOsName(process.platform)

\* C7: after the architecture switch, the architecture name is 386 for x32,
\* amd64 for x64 and the host's name otherwise.
C7_ArchNameTable ==
    pc \in {"executable", "loaded"} => arch = ReleaseArchName(process.arch)

\* The last argument of the pending call is a flag object.
HasFlags == input.args # <<>> /\ input.args[Len(input.args)].t = "object"

\* The entries of the pending call's flag object.
FlagEntries == IF HasFlags THEN input.args[Len(input.args)].v ELSE <<>>

\* The literal positional arguments of the pending call.
Positionals ==
    IF HasFlags THEN SubSeq(input.args, 1, Len(input.args) - 1) ELSE input.args

\* String(value) of a flag value.
StringOf(value) ==
    CASE value.t = "string" -> value.v
      [] value.t = "number" -> ToString(value.v)
      [] OTHER -> "?"

\* The tokens the marshalling rules give one entry.
EntryTokens(key, value) ==
    IF value = Bool(FALSE) THEN <<Str("--no-" \o key)>>
    ELSE IF value = Bool(TRUE) THEN <<Str("--" \o key)>>
    ELSE <<Str("--" \o key), Str(StringOf(value))>>

\* The tokens of the entries in iteration order.
RECURSIVE AllEntryTokens(_)
AllEntryTokens(entries) ==
    IF entries = <<>> THEN <<>>
    ELSE EntryTokens(Head(entries)[1], Head(entries)[2])
             \o AllEntryTokens(Tail(entries))

\* What follows the subcommand name and the positionals in an argument vector.
FlagPart(argv) == SubSeq(argv, Len(Positionals) + 2, Len(argv))

C9_NonMappingStays ==
    \A h \in Handles :
        (children[h] # NoChild /\ input.args # <<>> /\ ~HasFlags)
            => children[h].args = <<Str(input.commandName)>> \o input.args

C9_Witness ==
    /\ children["h1"] # NoChild
    /\ input.args = <<Num(7), Null>>
    /\ children["h1"].args = <<Str(input.commandName), Num(7), Null>>

\* C10: the direct and the promise-based entry point of a subcommand spawn
\* the same executable with the same argument vector: the subcommand name,
\* then the positionals in the caller's order, then the flag tokens in the
\* flag object's iteration order.
C10_SameArgumentVector ==
    (children["h1"] # NoChild /\ children["h2"] # NoChild)
        => /\ children["h1"].via = "api"
           /\ children["h2"].via = "promises"
           /\ children["h1"].file = children["h2"].file
           /\ children["h1"].args = children["h2"].args
           /\ children["h1"].args =
                  <<Str(input.commandName)>> \o Positionals
                      \o AllEntryTokens(FlagEntries)

C10_Witness ==
    /\ children["h1"] # NoChild
    /\ children["h2"] # NoChild
    /\ input.commandName = "config create"
    /\ Len(Positionals) = 1
    /\ Len(FlagEntries) = 2
    /\ children["h2"].args[1] = Str("config create")

\* The promise of h is settled.
Settled(h) == promise[h].state \in {"fulfilled", "rejected"}

\* What the listeners of h hold is what the subprocess of h emitted.
OwnResult(h) ==
    Listening(h) =>
        /\ stdout[h] = emitted[h].out
        /\ stderr[h] = emitted[h].err
        /\ promise[h].state = "fulfilled"
               => promise[h].value = Buffer(BufferConcat(emitted[h].out))
        /\ (promise[h].state = "rejected" /\ promise[h].value.t = "Buffer")
               => promise[h].value = Buffer(BufferConcat(emitted[h].err))
        /\ (promise[h].state = "rejected" /\ promise[h].value.t = "Error")
               => promise[h].value = ErrorObject(emitted[h].error)

\* C17: with several promise-based invocations in flight, each one's buffers
\* and result come from its own handle's events only, and a step that
\* delivers no event of a handle leaves that handle's promise as it was.
C17_InvocationsIndependent ==
    /\ [](\A h \in Handles : OwnResult(h))
    /\ [][\A h \in Handles :
             (emitted'[h] = emitted[h] /\ children'[h] = children[h])
                 => promise'[h] = promise[h]]_vars

C17_Witness ==
    /\ promise["h1"] = Fulfilled(Buffer("aa"))
    /\ promise["h2"] = Rejected(Buffer("rr"))
    /\ emitted["h1"].err # <<>>
    /\ emitted["h2"].out # <<>>
    /\ StreamsEnded("h1")
    /\ StreamsEnded("h2")

\* C18: the argument vector handed to spawn is the caller's positional
\* arguments followed by the flag tokens and nothing else, for every
\* argument list; for the empty list it is empty.
C18_OnlyPositionalsAndFlags ==
    \A h \in Handles :
        children[h] # NoChild
            => children[h].args = Positionals \o AllEntryTokens(FlagEntries)

\* C20: every promise-based invocation whose standard output ends (or whose
\* handle reports an error) eventually settles, whatever the order of the
\* stream events.
C20_EventuallySettles ==
    \A h \in Handles : Listening(h) ~> Settled(h)

C20_Witness ==
    /\ promise["h1"].state = "rejected"
    /\ StreamsEnded("h1")
    /\ emitted["h1"].out = <<"a", "bc">>
    /\ emitted["h1"].err # <<>>

\* A selfupdate call can start: none is in flight.
Callable == update.pc \in {"idle", "delegated", "settled"}

\* An executable exists at the resolved Executable Location.
ExecutablePresent == fs[RCLONE_EXECUTABLE] # Absent

\* The options as the update contract reads them: beta is false, check is
\* false and stable is the negation of beta unless given.
GivenOr(key, default) ==
    IF \E i \in 1..Len(FlagEntries) : FlagEntries[i][1] = key
    THEN (LET i == CHOOSE j \in 1..Len(FlagEntries) : FlagEntries[j][1] = key
          IN  FlagEntries[i][2].v)
    ELSE default
WantBeta == GivenOr("beta", FALSE)
WantStable == GivenOr("stable", ~WantBeta)
WantCheck == GivenOr("check", FALSE)
PinnedVersion == GivenOr("version", "")
StableHost == "https://downloads.rclone.org"
BetaHost == "https://beta.rclone.org"
WantBaseUrl == IF WantStable THEN StableHost ELSE BetaHost

\* C11: when the fetch of version.txt or of the archive fails, the promise
\* update returned is rejected with the transport error.
C11_FetchFailureRejects ==
    update.uncaught # NoError
        => update.promise = Rejected(ErrorObject(update.uncaught))

\* C12: a call of update made while the executable exists spawns it with
\* selfupdate and the marshalled options, and fetches nothing, extracts
\* nothing and changes no permission, whatever the options.
C12_DelegatesWhenPresent ==
    [][(Callable /\ ExecutablePresent)
          => /\ update'.pc = "delegated"
             /\ requests' = <<>>
             /\ fs' = fs
             /\ \E h \in Handles :
                    /\ children[h] = NoChild
                    /\ children'[h].file = RCLONE_EXECUTABLE
                    /\ children'[h].args =
                           <<Str("selfupdate")>> \o AllEntryTokens(FlagEntries)]_vars

C12_Witness ==
    /\ update.pc = "delegated"
    /\ input.args = << Obj(<< <<"check", Bool(TRUE)>> >>) >>
    /\ children["h1"].file = "/opt/rclone"
    /\ children["h1"].args = <<Str("selfupdate"), Str("--check")>>
    /\ requests = <<>>

\* C13: a call of update with check true and no executable present requests
\* {baseUrl}/version.txt and nothing else, reports the fetched text, and the
\* filesystem stays as it was.
C13_CheckOnlyReports ==
    [][/\ (Callable /\ ~ExecutablePresent /\ WantCheck)
             => /\ requests' = <<WantBaseUrl \o "/version.txt">>
                /\ update'.kind = "check"
                /\ fs' = fs
                /\ children' = children
       /\ update.kind = "check"
             => /\ fs' = fs
                /\ children' = children
                /\ update'.kind = "check" => requests' = requests
                /\ (update.pc = "fetching" /\ update'.pc = "settled")
                       => /\ update'.promise.state = "fulfilled"
                          /\ console' =
                                 <<"The latest version is "
                                       \o Text(BodyConcat(update.chunks))>>]_vars

C13_Witness ==
    /\ update.kind = "check"
    /\ update.pc = "settled"
    /\ requests = <<"https://beta.rclone.org/version.txt">>
    /\ console = <<"The latest version is v1.2.3\n">>
    /\ fs = EmptyFs

\* C14: in the download state the requested URL is
\* {baseUrl}/{archiveName}-{releaseOsName}-{releaseArchName}.zip, for every
\* combination of beta, stable and version.
C14_ArchiveUrl ==
    update.kind = "download"
        => requests =
               << WantBaseUrl \o "/"
                    \o (IF PinnedVersion # ""
                        THEN PinnedVersion \o "/rclone-" \o PinnedVersion
                        ELSE IF WantStable THEN "rclone-current"
                        ELSE "rclone-beta-latest")
                    \o "-" \o ReleaseOsName(process.platform)
                    \o "-" \o ReleaseArchName(process.arch) \o ".zip" >>

\* The base names rclone and rclone.exe.
ExecutableNames == {RcloneChars, RcloneChars \o ExeChars}

\* C15: the extraction extracts exactly the entries whose base name is
\* rclone or rclone.exe, flattened into the install directory, and each
\* file it extracts is marked executable.
C15_ExtractsExactlyExecutables ==
    [][(update.kind = "download" /\ update.pc = "fetching"
                                 /\ update'.pc = "settled")
          => LET body == BodyConcat(update.chunks)
                 named == {body[i].name : i \in 1..Len(body)} \cap ExecutableNames
             IN  /\ \A path \in Paths :
                        fs'[path] # fs[path]
                            => \E name \in named :
                                   path = Join(RCLONE_DIR, Text(name))
                 /\ \A name \in named :
                        fs'[Join(RCLONE_DIR, Text(name))] = ModeExecutable]_vars

\* C16: update returns a promise in every state, never a process handle.
C16_ReturnsPromise ==
    update.returned # "none" => update.returned = "Promise"

\* C19: once update has completed the download and extraction of an archive
\* that holds a matching entry, an executable exists at the resolved
\* Executable Location, with the default location and with an override.
C19_InstalledWhereInvoked ==
    (/\ update.kind = "download"
     /\ update.pc = "settled"
     /\ update.promise.state = "fulfilled"
     /\ \E i \in 1..Len(BodyConcat(update.chunks)) :
            BodyConcat(update.chunks)[i].name \in ExecutableNames)
        => ExecutablePresent
====
